---- MODULE Spec2Model ----
(***************************************************************************)
(* Model of the agent runtime manager (src/app/core/engine.py): the        *)
(* process-wide pipeline cache `agents` / `agents_updated`, the builder    *)
(* initialize_agent, the execution loop execute_agent and the purge        *)
(* clean_agent_memory with the clean_data methods of src/models/skill.py.  *)
(*                                                                         *)
(* Every request is an asyncio task.  A task runs without interruption     *)
(* from one await to the next, so each action below is either the          *)
(* completion of one awaited I/O call or the synchronous code that runs    *)
(* between two awaits.                                                     *)
(*                                                                         *)
(* A response line is a string in the code.  Here it is a record           *)
(* [k, v, d]: k is the shape of the line (label, text, cost, ...), v its   *)
(* text and d the duration printed in it.  Payload texts are drawn from a  *)
(* vocabulary that contains no label text.                                 *)
(***************************************************************************)
EXTENDS Integers, Sequences, FiniteSets, TLC

\* ---------------------------------------------------------------- bounds
\* Highest value of the config store's clock (updated_at timestamps).
MaxVersion == 2
\* Longest pipeline stream of one call, in the single-request specification.
MaxSteps == 2
\* Longest pipeline stream of one call, in the concurrent specification.
MaxStepsConc == 1

\* Agent identities: a1 has a row in the config store (while it is not
\* deleted), a2 never has one.
Aids == {"a1", "a2"}
StoredAids == {"a1"}

\* The request tasks of each specification, and the arguments they pass.
SeqProcs == {1}
ConcProcs == {1, 2}
ConcAids == {"a1"}
ConcDebug == {FALSE}

\* What the stream yields: the node a chunk comes from and its payload text.
Chunks ==
    {[kind |-> "agent", v |-> ""], [kind |-> "agent", v |-> "hello"],
     [kind |-> "tools", v |-> ""], [kind |-> "tools", v |-> "done"],
     [kind |-> "other", v |-> ""]}
ConcChunks == {[kind |-> "agent", v |-> "hello"]}

VARIABLES
    agent_table,     \* config store: aid -> Agent row (found, updated_at, cdp_enabled)
    db_clock,        \* the store's clock: the last updated_at it handed out
    agent_data,      \* AgentData rows: aid -> cdp_wallet_data (0: none)
    agents,          \* engine.agents: dict aid -> pipeline object
    agents_updated,  \* engine.agents_updated: dict aid -> updated_at
    pipes,           \* heap of live pipeline objects: object id -> contents
    req,             \* the request tasks: task -> locals of execute_agent
    tables,          \* the skill-data and checkpoint tables: table -> set of rows
    purge,           \* the clean_agent_memory call and its session `db`
    build,           \* one tool-resolution run of initialize_agent
    skill_op,        \* one call of AgentSkillData or ThreadSkillData
    timeline,        \* one call of TwitterGetTimeline and the stored cursor
    tokens           \* one call of EnsoGetTokens

vars == <<agent_table, db_clock, agent_data, agents, agents_updated, pipes, req,
          tables, purge, build, skill_op, timeline, tokens>>

\* What execute_agent and the config store's users never touch, and what
\* clean_agent_memory never touches.
aux == <<tables, purge, build, skill_op, timeline, tokens>>

\* The calls of the skills and of their store.
skill_calls == <<skill_op, timeline, tokens>>

cache == <<agent_table, db_clock, agent_data, agents, agents_updated, pipes, req>>

\* ------------------------------------------------------------ data shapes
NoAgent == [found |-> FALSE, updated_at |-> 0, cdp_enabled |-> FALSE]

AgentRow(ts, cdp) == [found |-> TRUE, updated_at |-> ts, cdp_enabled |-> cdp]

Seg(k, v, d) == [k |-> k, v |-> v, d |-> d]

ThreadSeg == Seg("thread", "Thread ID", 0)

InputSeg == Seg("input", "[ Input: ]", 0)

ColdStartSeg == Seg("label", "[ Agent cold start ... ]", 0)

ReinitSeg == Seg("label", "[ Agent reinitialized ... ]", 0)

StartCostSeg(d) == Seg("cost", "start cost", d)

AgentSeg == Seg("label", "[ Agent: ]", 0)

ThinkingSeg == Seg("label", "[ Agent is thinking ... ]", 0)

AgentCostSeg(d) == Seg("cost", "agent cost", d)

SkillSeg == Seg("label", "[ Skill running ... ]", 0)

SkillCostSeg(d) == Seg("cost", "skill cost", d)

TextSeg(v) == Seg("text", v, 0)

TotalSeg(d) == Seg("total", "Total time cost", d)

SnapshotSeg(v) == Seg("snapshot", v, 0)

\* A Python dict as a function with a growing domain: d[k] = v.
DictSet(d, k, v) == [x \in (DOMAIN d) \cup {k} |-> IF x = k THEN v ELSE d[x]]

\* The locals of a task that runs no call.  The last line holds what the
\* model records about a call and the code does not: inits counts the calls
\* of initialize_agent, chunks is the stream consumed so far, pre is the
\* situation the call found (PreOf), path the branch it took, and ag0 / au0
\* are the identity's cache entry when its build started (0: no entry), and
\* at tells where an exception left the call (check, build or run).
IdleReq ==
    [pc |-> "idle", aid |-> "a1", debug |-> FALSE, agent |-> NoAgent,
     needs_reinit |-> FALSE, resp_debug |-> <<>>, resp |-> <<>>,
     executor |-> 0, config |-> NoAgent, wallet |-> 0,
     now |-> 0, last |-> 0, resp_debug_append |-> SnapshotSeg(""),
     out |-> <<>>, result |-> "none",
     inits |-> 0, chunks |-> <<>>,
     pre |-> "none", path |-> "none", ag0 |-> 0, au0 |-> 0, at |-> "none"]

\* Object ids in use: held by the cache or by a running call.
Live(ag, rq) ==
    {ag[a] : a \in DOMAIN ag} \cup ({rq[p].executor : p \in DOMAIN rq} \ {0})

\* The id create_agent's new object gets: one that no live reference holds.
FreshOid(ag, rq) == CHOOSE n \in 1..(Cardinality(Live(ag, rq)) + 1) : n \notin Live(ag, rq)

\* Objects no reference holds any more are collected.
Collect(pp, ag, rq) == [o \in (DOMAIN pp) \cap Live(ag, rq) |-> pp[o]]

InitOf(P) ==
    /\ agent_table = [a \in Aids |-> IF a = "a1" THEN AgentRow(1, TRUE) ELSE NoAgent]
    /\ db_clock = 1
    /\ agent_data = [a \in Aids |-> 0]
    /\ agents = <<>>
    /\ agents_updated = <<>>
    /\ pipes = <<>>
    /\ req = [p \in P |-> IdleReq]

\* ------------------------------------------------ the config store's users
CreateAgent(a) ==
    /\ ~agent_table[a].found
    /\ db_clock < MaxVersion
    /\ \E cdp \in BOOLEAN :
         agent_table' = [agent_table EXCEPT ![a] = AgentRow(db_clock + 1, cdp)]
    /\ db_clock' = db_clock + 1
    /\ UNCHANGED <<agent_data, agents, agents_updated, pipes, req, aux>>

UpdateAgent(a) ==
    /\ agent_table[a].found
    /\ db_clock < MaxVersion
    /\ agent_table' = [agent_table EXCEPT ![a].updated_at = db_clock + 1]
    /\ db_clock' = db_clock + 1
    /\ UNCHANGED <<agent_data, agents, agents_updated, pipes, req, aux>>

DeleteAgent(a) ==
    /\ agent_table[a].found
    /\ agent_table' = [agent_table EXCEPT ![a] = NoAgent]
    /\ UNCHANGED <<db_clock, agent_data, agents, agents_updated, pipes, req, aux>>

\* --------------------------------------------------------- execute_agent
\* The places of a task inside initialize_agent.
BuildPlaces == {"get_config", "get_data", "setup", "set_data", "finish"}

\* The task's locals after an exception left execute_agent: the locals of
\* the code are gone; of what the model records about the call, the part
\* that tells where the call failed stays.
Raised(r, code) ==
    LET building == r.pc \in BuildPlaces
    IN  [IdleReq EXCEPT !.pc = "done", !.result = code, !.aid = r.aid, !.debug = r.debug,
                        !.inits = r.inits,
                        !.pre = IF r.pc = "check" THEN r.pre ELSE "none",
                        !.ag0 = IF building THEN r.ag0 ELSE 0,
                        !.au0 = IF building THEN r.au0 ELSE 0,
                        !.at = IF building THEN "build"
                               ELSE IF r.pc = "check" THEN "check" ELSE "run"]

\* A variant that takes every cached pipeline for stale.
NeedsReinitAlways(aid, agent) == aid \in DOMAIN agents

\* Lines 334-338: a cached pipeline whose recorded version differs.
NeedsReinit(aid, agent) ==
    /\ aid \in DOMAIN agents
    /\ \/ aid \notin DOMAIN agents_updated
       \/ agent.updated_at # agents_updated[aid]

\* Line 346: build when there is no cached pipeline or it is stale.
MustBuild(aid, agent) == (aid \notin DOMAIN agents) \/ NeedsReinit(aid, agent)

\* Lines 358-370: take the cached pipeline and go on to the run.
StartRun(r, oid) ==
    [r EXCEPT !.executor = oid,
              !.pc = IF r.debug THEN "aget_state" ELSE "astream"]

\* Lines 323-329: a request arrives; the task runs up to `await Agent.get`.
Call(p, A, D) ==
    /\ req[p].pc = "idle"
    /\ \E a \in A, dbg \in D :
         req' = [req EXCEPT ![p] =
                    [IdleReq EXCEPT !.pc = "get_agent", !.aid = a, !.debug = dbg,
                                    !.resp_debug = <<ThreadSeg>>]]
    /\ UNCHANGED <<agent_table, db_clock, agent_data, agents, agents_updated, pipes, aux>>

\* Line 329: Agent.get reads the row (None when there is none).
AgentGet(p) ==
    /\ req[p].pc = "get_agent"
    /\ req' = [req EXCEPT ![p].agent = agent_table[req[p].aid],
                          ![p].now = @ + 1,
                          ![p].pc = "check"]
    /\ UNCHANGED <<agent_table, db_clock, agent_data, agents, agents_updated, pipes, aux>>

\* A variant without the check of line 330.
NotFoundNever(agent) == FALSE

\* Line 330: Agent.get found no row.
NotFound(agent) == ~agent.found

\* A variant with one label for both kinds of build.
BuildLabelSame(cold) == ColdStartSeg

\* Lines 347-351: the label of a build.
BuildLabel(cold) == IF cold THEN ColdStartSeg ELSE ReinitSeg

\* The situation a call finds when it looks at the cache, told from the row
\* it read and from the version the cached pipeline was really built from.
PreOf(aid, agent) ==
    IF ~agent.found THEN "unknown"
    ELSE IF aid \notin DOMAIN agents THEN "absent"
    ELSE IF agent.updated_at = pipes[agents[aid]].built_from THEN "fresh"
    ELSE IF /\ aid \in DOMAIN agents_updated
            /\ agents_updated[aid] = pipes[agents[aid]].built_from
            /\ agent.updated_at > agents_updated[aid] THEN "advanced"
    ELSE "unsettled"

\* Lines 330-352 (and 113-119 of initialize_agent, up to its first await),
\* or lines 330-370 when the cached pipeline is reused.
CheckCache(p) ==
    LET r == req[p]
        cold == r.aid \notin DOMAIN agents
        reinit == NeedsReinit(r.aid, r.agent)
        rd == Append(r.resp_debug, InputSeg)
        g == [r EXCEPT !.pre = PreOf(r.aid, r.agent)]
    IN  /\ r.pc = "check"
        /\ IF NotFound(r.agent)
             THEN req' = [req EXCEPT ![p] = Raised(g, "404")]
             ELSE IF MustBuild(r.aid, r.agent)
               THEN req' = [req EXCEPT ![p] =
                       [g EXCEPT !.needs_reinit = reinit,
                                 !.resp_debug = Append(rd, BuildLabel(cold)),
                                 !.inits = @ + 1,
                                 !.path = IF cold THEN "cold" ELSE "stale",
                                 !.ag0 = IF cold THEN 0 ELSE agents[r.aid],
                                 !.au0 = IF r.aid \in DOMAIN agents_updated
                                           THEN agents_updated[r.aid] ELSE 0,
                                 !.pc = "get_config"]]
               ELSE req' = [req EXCEPT ![p] =
                       StartRun([g EXCEPT !.needs_reinit = reinit, !.resp_debug = rd,
                                          !.path = "reuse"],
                                agents[r.aid])]
        /\ UNCHANGED <<agent_table, db_clock, agent_data, agents, agents_updated, pipes, aux>>

\* ------------------------------------------------------- initialize_agent
\* Lines 118-119, 124-130: agent_store.get_config.
GetConfig(p) ==
    LET r == req[p]
    IN  /\ r.pc = "get_config"
        /\ \/ /\ agent_table[r.aid].found
              /\ req' = [req EXCEPT ![p] = [r EXCEPT !.config = agent_table[r.aid],
                                                     !.now = @ + 1,
                                                     !.pc = "get_data"]]
           \/ /\ ~agent_table[r.aid].found
              /\ req' = [req EXCEPT ![p] = Raised(r, "404")]
           \/ req' = [req EXCEPT ![p] = Raised(r, "500")]
        /\ UNCHANGED <<agent_table, db_clock, agent_data, agents, agents_updated, pipes, aux>>

\* Lines 120, 127-130: agent_store.get_data.
GetData(p) ==
    LET r == req[p]
    IN  /\ r.pc = "get_data"
        /\ \/ req' = [req EXCEPT ![p] = [r EXCEPT !.wallet = agent_data[r.aid],
                                                  !.now = @ + 1,
                                                  !.pc = "setup"]]
           \/ req' = [req EXCEPT ![p] = Raised(r, "500")]
        /\ UNCHANGED <<agent_table, db_clock, agent_data, agents, agents_updated, pipes, aux>>

\* A variant that rebuilds the cached object in place.
NewPipelineInPlace(aid) ==
    IF aid \in DOMAIN agents THEN agents[aid] ELSE FreshOid(agents, req)

\* Lines 284-292: create_agent returns a new object.
NewPipeline(aid) == FreshOid(agents, req)

\* A variant that records no version.
RecordVersionNever(au, aid, config) == au

\* Line 123: the version is recorded as soon as the config is fetched.
RecordVersion(au, aid, config) == DictSet(au, aid, config.updated_at)

\* A variant that records no start cost.
StartCostNone(r) == <<>>

\* Lines 353-355: the time since `last`, which is still the start of the call.
StartCost(r) == <<StartCostSeg(r.now - r.last)>>

\* Lines 183-292 and 353-370: the pipeline is installed, initialize_agent
\* returns (its locals are gone), the start cost is recorded and the run
\* begins.  `au` is agents_updated as the caller leaves it.
Install(p, au) ==
    LET r == req[p]
        oid == NewPipeline(r.aid)
        ag == DictSet(agents, r.aid, oid)
        rq == [req EXCEPT ![p] =
                 StartRun([r EXCEPT !.resp_debug = @ \o StartCost(r),
                                    !.last = r.now,
                                    !.config = NoAgent,
                                    !.wallet = 0],
                          oid)]
    IN  /\ agents' = ag
        /\ agents_updated' = au
        /\ req' = rq
        /\ pipes' = Collect(DictSet(pipes, oid,
                                    [aid |-> r.aid, built_from |-> r.config.updated_at]),
                            ag, rq)

\* Lines 123-182: after get_data.  Without the wallet capability, or with a
\* stored wallet, the build runs on to its end (lines 183-292).
Setup(p) ==
    LET r == req[p]
        au == RecordVersion(agents_updated, r.aid, r.config)
    IN  /\ r.pc = "setup"
        /\ \/ \* line 175, or a resolver of lines 213-242, raises
              /\ req' = [req EXCEPT ![p] = Raised(r, "error")]
              /\ agents_updated' = au
              /\ UNCHANGED <<agents, pipes, agent_data>>
           \/ \* line 178: the new wallet has to be saved first
              /\ r.config.cdp_enabled /\ r.wallet = 0
              /\ req' = [req EXCEPT ![p].pc = "set_data"]
              /\ agents_updated' = au
              /\ UNCHANGED <<agents, pipes, agent_data>>
           \/ /\ ~(r.config.cdp_enabled /\ r.wallet = 0)
              /\ Install(p, au)
              /\ UNCHANGED agent_data
        /\ UNCHANGED <<agent_table, db_clock, aux>>

\* The store's setData(identity, partialFields): the fields given are set,
\* whatever the row held.
StoreSetData(data, aid, value) == [data EXCEPT ![aid] = value]

\* Lines 178-182: agent_store.set_data stores the wallet that the task's
\* CdpAgentkitWrapper has just made (the task's own: p).
SetData(p) ==
    LET r == req[p]
    IN  /\ r.pc = "set_data"
        /\ \/ /\ agent_data' = StoreSetData(agent_data, r.aid, p)
              /\ req' = [req EXCEPT ![p].now = @ + 1, ![p].pc = "finish"]
           \/ /\ req' = [req EXCEPT ![p] = Raised(r, "error")]
              /\ UNCHANGED agent_data
        /\ UNCHANGED <<agent_table, db_clock, agents, agents_updated, pipes, aux>>

\* Lines 183-292 after the wallet was saved.
Finish(p) ==
    LET r == req[p]
    IN  /\ r.pc = "finish"
        /\ \/ /\ req' = [req EXCEPT ![p] = Raised(r, "error")]
              /\ UNCHANGED <<agents, agents_updated, pipes>>
           \/ Install(p, agents_updated)
        /\ UNCHANGED <<agent_table, db_clock, agent_data, aux>>

\* ------------------------------------------------------ the run, 369-414
\* A variant in which a failed retrieval is not caught.
SnapFailedRaises(r) == Raised(r, "error")

\* Lines 381-383: a failed retrieval is logged and the block is emptied.
SnapFailed(r) ==
    [r EXCEPT !.resp_debug_append = SnapshotSeg(""), !.now = @ + 1, !.pc = "astream"]

\* Lines 370-383: the debug snapshot (the prompt and the thread's state).
Snap(p) ==
    LET r == req[p]
    IN  /\ r.pc = "aget_state"
        /\ \E got \in BOOLEAN :
             req' = [req EXCEPT ![p] =
                       IF got
                         THEN [r EXCEPT !.resp_debug_append =
                                           SnapshotSeg("[ system ] prompt and history"),
                                        !.now = @ + 1,
                                        !.pc = "astream"]
                         ELSE SnapFailed(r)]
        /\ UNCHANGED <<agent_table, db_clock, agent_data, agents, agents_updated, pipes, aux>>

\* A variant in which a model turn with an empty payload adds no cost line.
AgentLinesSkip(v, d) ==
    IF v # "" THEN <<AgentSeg, TextSeg(v), AgentCostSeg(d)>> ELSE <<ThinkingSeg>>

\* Lines 388-399: the lines a model turn adds to resp_debug.
AgentLines(v, d) ==
    IF v # "" THEN <<AgentSeg, TextSeg(v), AgentCostSeg(d)>>
              ELSE <<ThinkingSeg, AgentCostSeg(d)>>

\* Lines 400-406: the lines a tool turn adds to resp_debug.
SkillLines(v, d) == <<SkillSeg, TextSeg(v), SkillCostSeg(d)>>

\* A variant that adds the payload to resp even when it is empty.
AgentAnswerAll(v) == <<TextSeg(v)>>

\* Lines 390-393: what a model turn adds to resp.
AgentAnswer(v) == IF v # "" THEN <<TextSeg(v)>> ELSE <<>>

\* Lines 385-406: one chunk of executor.astream is consumed.
Chunk(p, C, Max) ==
    LET r == req[p]
    IN  /\ r.pc = "astream"
        /\ Len(r.chunks) < Max
        /\ \E c \in C :
             LET t == r.now + 1
                 d == t - r.last
                 kind == c.kind
                 v == c.v
             IN  req' = [req EXCEPT ![p] =
                   IF kind = "agent"
                     THEN [r EXCEPT !.resp_debug = @ \o AgentLines(v, d),
                                    !.resp = @ \o AgentAnswer(v),
                                    !.now = t, !.last = t,
                                    !.chunks = Append(@, c)]
                   ELSE IF kind = "tools"
                     THEN [r EXCEPT !.resp_debug = @ \o SkillLines(v, d),
                                    !.now = t, !.last = t,
                                    !.chunks = Append(@, c)]
                     ELSE [r EXCEPT !.now = t, !.chunks = Append(@, c)]]
        /\ UNCHANGED <<agent_table, db_clock, agent_data, agents, agents_updated, pipes, aux>>

\* A variant that returns the debug list in both modes.
ReturnedAlwaysDebug(debug, resp_debug, resp, extra) == Append(resp_debug, extra)

\* Lines 410-414: the list the call returns.
Returned(debug, resp_debug, resp, extra) ==
    IF debug THEN Append(resp_debug, extra) ELSE resp

\* Lines 408-414: the stream ends and the call returns.
StreamEnd(p) ==
    LET r == req[p]
        rd == Append(r.resp_debug, TotalSeg(r.now + 1))
    IN  /\ r.pc = "astream"
        /\ req' = [req EXCEPT ![p] =
                     [r EXCEPT !.resp_debug = rd,
                               !.now = @ + 1,
                               !.out = Returned(r.debug, rd, r.resp, r.resp_debug_append),
                               !.result = "ok",
                               !.pc = "done"]]
        /\ UNCHANGED <<agent_table, db_clock, agent_data, agents, agents_updated, pipes, aux>>

\* Line 385: the stream raises; execute_agent catches nothing.
StreamRaise(p) ==
    /\ req[p].pc = "astream"
    /\ req' = [req EXCEPT ![p] = Raised(req[p], "error")]
    /\ pipes' = Collect(pipes, agents, req')
    /\ UNCHANGED <<agent_table, db_clock, agent_data, agents, agents_updated, aux>>

\* The caller abandons the call: CancelledError is raised at the await the
\* task is suspended on (whether or not the awaited call has completed),
\* and nothing in lines 92-414 catches it.
Cancel(p) ==
    /\ req[p].pc \notin {"idle", "done"}
    /\ req' = [req EXCEPT ![p] = Raised(req[p], "cancelled")]
    /\ pipes' = Collect(pipes, agents, req')
    /\ UNCHANGED <<agent_table, db_clock, agent_data, agents, agents_updated, aux>>

\* The call is over: its locals, and its reference to the pipeline, are gone.
Return(p) ==
    /\ req[p].pc = "done"
    /\ req' = [req EXCEPT ![p] = IdleReq]
    /\ pipes' = Collect(pipes, agents, req')
    /\ UNCHANGED <<agent_table, db_clock, agent_data, agents, agents_updated, aux>>

\* --------------------------- initialize_agent, 132-292: what it assembles
\* The cache specifications above take the pipeline as an opaque object;
\* here one run of lines 132-292 is followed through its model binding, its
\* tools and its prompt.  A string that is tested for a prefix is the
\* sequence of its parts.
StartsWith(s, prefix) ==
    Len(s) >= Len(prefix) /\ SubSeq(s, 1, Len(prefix)) = prefix

\* Lines 135, 261, 269, 280: agent.model.startswith("deepseek").
IsDeepseek(model) == StartsWith(model, <<"deepseek">>)

\* Lines 133, 145: the budget handed to create_agent.
InputTokenLimit(model) == IF IsDeepseek(model) THEN 60000 ELSE 120000

\* A resolved tool: its name and the capability that resolved it.
Tool(name, from) == [name |-> name, from |-> from]

ToolsOf(skills, from) == [i \in 1..Len(skills) |-> Tool(skills[i], from)]

\* Is the name in the list?
InList(x, list) == \E i \in DOMAIN list : list[i] = x

\* The outcome of one capability: its tools, or the exception it raised.
Resolved(tools) == [raised |-> FALSE, tools |-> tools]

RaisedIn(cat) == [raised |-> TRUE, tools |-> <<>>, from |-> cat]

\* The tools CdpToolkit.get_tools() returns.
CdpToolkitTools == <<Tool("wallet", "cdp"), Tool("x", "cdp")>>

NamedIn(t, names) == InList(t.name, names)

\* Lines 164-189: nothing here is inside a try.
CdpTools(cfg, fails) ==
    IF ~cfg.cdp_enabled THEN Resolved(<<>>)
    ELSE IF "cdp" \in fails THEN RaisedIn("cdp")
    ELSE IF Len(cfg.cdp_skills) > 0
           THEN Resolved(SelectSeq(CdpToolkitTools,
                                   LAMBDA t : NamedIn(t, cfg.cdp_skills)))
    ELSE Resolved(CdpToolkitTools)

\* Lines 192-207: each skill is resolved inside try/except Exception.  The
\* argument `agentkit.wallet if agentkit else None` reads a local that is
\* bound only at line 175, so without the wallet capability it raises
\* UnboundLocalError, which the except swallows like any other.
EnsoTools(cfg, fails) ==
    IF Len(cfg.enso_skills) > 0 /\ cfg.enso_config
      THEN IF "enso" \in fails \/ ~cfg.cdp_enabled
             THEN Resolved(<<>>)
             ELSE Resolved(ToolsOf(cfg.enso_skills, "enso"))
      ELSE Resolved(<<>>)

\* Lines 209-227.
TwitterTools(cfg, fails) ==
    IF Len(cfg.twitter_skills) = 0 THEN Resolved(<<>>)
    ELSE IF "twitter" \in fails THEN RaisedIn("twitter")
    ELSE Resolved(ToolsOf(cfg.twitter_skills, "twitter"))

\* Lines 229-232.
CrestalTools(cfg, fails) ==
    IF Len(cfg.crestal_skills) = 0 THEN Resolved(<<>>)
    ELSE IF "crestal" \in fails THEN RaisedIn("crestal")
    ELSE Resolved(ToolsOf(cfg.crestal_skills, "crestal"))

\* Lines 234-237.
CommonTools(cfg, fails) ==
    IF Len(cfg.common_skills) = 0 THEN Resolved(<<>>)
    ELSE IF "common" \in fails THEN RaisedIn("common")
    ELSE Resolved(ToolsOf(cfg.common_skills, "common"))

\* Lines 239-242.
SkillSetTools(cfg, fails) ==
    IF Len(cfg.skill_sets) = 0 THEN Resolved(<<>>)
    ELSE IF "skill_sets" \in fails THEN RaisedIn("skill_sets")
    ELSE Resolved(ToolsOf(cfg.skill_sets, "skill_sets"))

\* Lines 160-242: the capabilities in the order of the code; the first
\* exception that is not caught ends the build.
Stages(cfg, fails) ==
    <<CdpTools(cfg, fails), EnsoTools(cfg, fails), TwitterTools(cfg, fails),
      CrestalTools(cfg, fails), CommonTools(cfg, fails), SkillSetTools(cfg, fails)>>

RECURSIVE Gather(_, _)
Gather(stages, tools) ==
    IF stages = <<>> THEN Resolved(tools)
    ELSE IF Head(stages).raised THEN Head(stages)
    ELSE Gather(Tail(stages), tools \o Head(stages).tools)

ResolveTools(cfg, fails) == Gather(Stages(cfg, fails), <<>>)

IsFirstMark(m) == m.first

\* A variant that keeps the first tool of a name.
DedupKeepFirst(tools) ==
    LET marked == [i \in 1..Len(tools) |->
                     [first |-> \A j \in 1..(i - 1) : tools[j].name # tools[i].name,
                      tool |-> tools[i]]]
        sel == SelectSeq(marked, IsFirstMark)
    IN  [i \in 1..Len(sel) |-> sel[i].tool]

\* Line 245: list({tool.name: tool for tool in tools}.values()).  A dict
\* keeps a key at the place of its first insertion and the value of its last.
Dedup(tools) ==
    LET n == Len(tools)
        LastIdx(i) == CHOOSE j \in i..n :
                        /\ tools[j].name = tools[i].name
                        /\ \A k \in (j + 1)..n : tools[k].name # tools[i].name
        marked == [i \in 1..n |->
                     [first |-> \A j \in 1..(i - 1) : tools[j].name # tools[i].name,
                      tool |-> tools[LastIdx(i)]]]
        sel == SelectSeq(marked, IsFirstMark)
    IN  [i \in 1..Len(sel) |-> sel[i].tool]

\* A variant whose default prompt does not depend on the wallet capability.
AgentPromptFallback(cfg) ==
    (IF cfg.system_prompt THEN <<"system_prompt">> ELSE <<>>)
    \o (IF cfg.name THEN <<"name">> ELSE <<>>)
    \o (IF cfg.prompt THEN <<"prompt">> ELSE <<"cdp default">>)
    \o (IF cfg.cdp_enabled THEN <<"cdp guidance">> ELSE <<>>)
    \o (IF cfg.enso_enabled THEN <<"enso guidance">> ELSE <<>>)

\* Lines 57-89: agent_prompt, as the list of its fragments.
AgentPrompt(cfg) ==
    (IF cfg.system_prompt THEN <<"system_prompt">> ELSE <<>>)
    \o (IF cfg.name THEN <<"name">> ELSE <<>>)
    \o (IF cfg.prompt THEN <<"prompt">>
        ELSE IF cfg.cdp_enabled THEN <<"cdp default">> ELSE <<>>)
    \o (IF cfg.cdp_enabled THEN <<"cdp guidance">> ELSE <<>>)
    \o (IF cfg.enso_enabled THEN <<"enso guidance">> ELSE <<>>)

Message(role, text) == [role |-> role, text |-> text]

\* Lines 251-273: the messages of the prompt template.
PromptArray(cfg) ==
    LET base == <<Message("system", AgentPrompt(cfg)),
                  Message("placeholder", <<"{messages}">>)>>
        twitter == IF Len(cfg.twitter_skills) > 0 /\ ~IsDeepseek(cfg.model)
                     THEN Append(base, Message("system", <<"twitter_prompt">>))
                     ELSE base
    IN  IF cfg.prompt_append
          THEN IF IsDeepseek(cfg.model)
                 THEN <<Message("system", <<"prompt_append">>)>> \o twitter
                 ELSE Append(twitter, Message("system", <<"prompt_append">>))
          ELSE twitter

\* A variant without the hack of lines 280-281.
FinalToolsKeep(model, tools) == tools

\* Lines 279-281: deepseek gets no tools.
FinalTools(model, tools) == IF IsDeepseek(model) THEN <<>> ELSE tools

\* No tool resolution is running.
IdleBuild ==
    [pc |-> "idle", config |-> <<>>, fails |-> {}, tools |-> <<>>,
     result |-> "none", raised_in |-> "none", pipeline |-> <<>>]

\* Lines 119-123: the config the build fetched, and the capabilities whose
\* setup or resolver is going to raise.
BuildCall(Cfgs, Fails) ==
    /\ build.pc = "idle"
    /\ \E cfg \in Cfgs, fails \in Fails :
         build' = [IdleBuild EXCEPT !.pc = "resolve", !.config = cfg, !.fails = fails]
    /\ UNCHANGED <<cache, tables, purge, skill_calls>>

\* Lines 159-242: the tools are resolved, or an exception leaves the build.
BuildResolve ==
    /\ build.pc = "resolve"
    /\ LET got == ResolveTools(build.config, build.fails)
       IN  build' = IF got.raised
                      THEN [build EXCEPT !.pc = "done", !.result = "error",
                                         !.raised_in = got.from]
                      ELSE [build EXCEPT !.pc = "assemble", !.tools = got.tools]
    /\ UNCHANGED <<cache, tables, purge, skill_calls>>

\* Lines 244-292: the tools are deduplicated, the prompt is set up and
\* create_agent is given the parts of the pipeline.
BuildAssemble ==
    /\ build.pc = "assemble"
    /\ LET tools == Dedup(build.tools)
       IN  build' = [build EXCEPT
                       !.pc = "done", !.result = "installed",
                       !.pipeline =
                          [deduped |-> tools,
                           tools |-> FinalTools(build.config.model, tools),
                           input_token_limit |-> InputTokenLimit(build.config.model),
                           prompt |-> PromptArray(build.config)]]
    /\ UNCHANGED <<cache, tables, purge, skill_calls>>

\* The build is over.
BuildReturn ==
    /\ build.pc = "done"
    /\ build' = IdleBuild
    /\ UNCHANGED <<cache, tables, purge, skill_calls>>

\* ---------------------------------------------- clean_agent_memory, 417-489
\* Identifiers are strings; here a string is the sequence of its characters,
\* so that strip, concatenation and LIKE work on it as they do in the code.
\* str.strip(): the white space at both ends is removed.
RECURSIVE LStrip(_)
LStrip(s) == IF s # <<>> /\ Head(s) = " " THEN LStrip(Tail(s)) ELSE s

RECURSIVE RStrip(_)
RStrip(s) ==
    IF s # <<>> /\ s[Len(s)] = " " THEN RStrip(SubSeq(s, 1, Len(s) - 1)) ELSE s

Strip(s) == RStrip(LStrip(s))

\* SQL `s LIKE pat`: % stands for any run of characters, _ for any one.
RECURSIVE Like(_, _)
Like(s, pat) ==
    IF pat = <<>> THEN s = <<>>
    ELSE IF Head(pat) = "%"
           THEN Like(s, Tail(pat)) \/ (s # <<>> /\ Like(Tail(s), pat))
    ELSE IF Head(pat) = "_"
           THEN s # <<>> /\ Like(Tail(s), Tail(pat))
    ELSE s # <<>> /\ Head(s) = Head(pat) /\ Like(Tail(s), Tail(pat))

\* The rows of the five tables.  Only the columns the purge looks at vary.
AgentSkillRow(agent_id) ==
    [agent_id |-> agent_id, skill |-> "skill", key |-> "key", data |-> 1]

ThreadSkillRow(agent_id, thread_id) ==
    [thread_id |-> thread_id, skill |-> "skill", key |-> "key",
     agent_id |-> agent_id, data |-> 1]

\* A checkpoint row of agent `agent_id` and thread `thread_id`: the engine's
\* callers key the conversation by "<agent_id>-<thread_id>".
CheckpointRow(agent_id, thread_id) == [thread_id |-> agent_id \o <<"-">> \o thread_id]

CheckpointTables == {"checkpoints", "checkpoint_writes", "checkpoint_blobs"}

\* The tables seeded with one row of each kind for every agent and thread.
Seeded(I, T) ==
    [agent_skill_data |-> {AgentSkillRow(a) : a \in I},
     thread_skill_data |-> {ThreadSkillRow(a, t) : a \in I, t \in T},
     checkpoints |-> {CheckpointRow(a, t) : a \in I, t \in T},
     checkpoint_writes |-> {CheckpointRow(a, t) : a \in I, t \in T},
     checkpoint_blobs |-> {CheckpointRow(a, t) : a \in I, t \in T}]

\* What the session `db` has deleted and not yet committed.
NoDeletes == [tb \in CheckpointTables |-> {}]

\* No purge is running.  `before` is the tables as the call found them.
IdlePurge ==
    [pc |-> "idle", agent_id |-> <<>>, thread_id |-> <<>>,
     clean_agent_memory |-> FALSE, clean_skills_memory |-> FALSE,
     deleted |-> NoDeletes, result |-> "none", before |-> <<>>, at |-> "none"]

\* An exception leaves clean_agent_memory: the session `db` is left without
\* commit, so what it deleted is not committed.
PurgeRaised(r, code) ==
    [r EXCEPT !.pc = "done", !.result = code, !.deleted = NoDeletes, !.at = r.pc]

\* A variant without the test of the flags.
NoFlagNever(clean_skills, clean_agent) == FALSE

\* Line 444: neither flag is set.
NoFlag(clean_skills, clean_agent) == ~clean_skills /\ ~clean_agent

\* Lines 450-454: the first deletion the flags ask for.
AfterSkills(r) == IF r.clean_agent_memory THEN "checkpoints" ELSE "commit"

AfterCheck(r) == IF r.clean_skills_memory THEN "agent_skill" ELSE AfterSkills(r)

\* Lines 417-442: a purge request arrives and opens its session.
PurgeCall(I, T) ==
    /\ purge.pc = "idle"
    /\ \E a \in I, t \in T, ca \in BOOLEAN, cs \in BOOLEAN :
         purge' = [IdlePurge EXCEPT !.pc = "check", !.agent_id = a, !.thread_id = t,
                                    !.clean_agent_memory = ca,
                                    !.clean_skills_memory = cs,
                                    !.before = tables]
    /\ UNCHANGED <<cache, tables, build, skill_calls>>

\* Lines 443-454: the flags are tested with the session open.
PurgeCheck ==
    /\ purge.pc = "check"
    /\ purge' = IF NoFlag(purge.clean_skills_memory, purge.clean_agent_memory)
                  THEN PurgeRaised(purge, "400")
                  ELSE [purge EXCEPT !.pc = AfterCheck(purge)]
    /\ UNCHANGED <<cache, tables, build, skill_calls>>

\* What a session of get_session() does with deletions when the block is
\* left without a commit is decided outside the listed sources
\* (models.db): they are either discarded or kept.
SessionKeeps == BOOLEAN

\* skill.py 96-99: AgentSkillData.clean_data, in a session of its own.
AgentSkillMatch(row, agent_id) == row.agent_id = agent_id

PurgeAgentSkill ==
    /\ purge.pc = "agent_skill"
    /\ \/ /\ purge' = PurgeRaised(purge, "500")
          /\ UNCHANGED tables
       \/ /\ purge' = [purge EXCEPT !.pc = "thread_skill"]
          /\ \E kept \in SessionKeeps :
               tables' = IF kept
                 THEN [tables EXCEPT !.agent_skill_data =
                         {row \in @ : ~AgentSkillMatch(row, purge.agent_id)}]
                 ELSE tables
    /\ UNCHANGED <<cache, build, skill_calls>>

\* skill.py 188-198: ThreadSkillData.clean_data, in a session of its own; the
\* thread_id is the argument as the caller gave it.
ThreadSkillMatch(row, agent_id, thread_id) ==
    IF thread_id # <<>>
      THEN row.agent_id = agent_id /\ row.thread_id = thread_id
      ELSE row.agent_id = agent_id

PurgeThreadSkill ==
    /\ purge.pc = "thread_skill"
    /\ \/ /\ purge' = PurgeRaised(purge, "500")
          /\ UNCHANGED tables
       \/ /\ purge' = [purge EXCEPT !.pc = AfterSkills(purge)]
          /\ \E kept \in SessionKeeps :
               tables' = IF kept
                 THEN [tables EXCEPT !.thread_skill_data =
                         {row \in @ : ~ThreadSkillMatch(row, purge.agent_id,
                                                        purge.thread_id)}]
                 ELSE tables
    /\ UNCHANGED <<cache, build, skill_calls>>

\* Lines 455-460: the pattern of the three DELETE statements.
QSuffix(thread_id) ==
    LET t == Strip(thread_id) IN IF t # <<>> THEN t ELSE <<"%">>

DeletionParam(agent_id, thread_id) == agent_id \o <<"-">> \o QSuffix(thread_id)

\* The table after `tb` in lines 461-480.
AfterTable(tb) ==
    IF tb = "checkpoints" THEN "checkpoint_writes"
    ELSE IF tb = "checkpoint_writes" THEN "checkpoint_blobs"
    ELSE "commit"

\* Lines 461-478: one DELETE ... WHERE thread_id like :value in session db.
PurgeExecute ==
    /\ purge.pc \in CheckpointTables
    /\ LET tb == purge.pc
           value == DeletionParam(purge.agent_id, purge.thread_id)
       IN  \/ purge' = PurgeRaised(purge, "500")
           \/ purge' = [purge EXCEPT
                          !.deleted[tb] = {row \in tables[tb] : Like(row.thread_id, value)},
                          !.pc = AfterTable(tb)]
    /\ UNCHANGED <<cache, tables, build, skill_calls>>

\* Lines 480-482: db.commit() makes the session's deletions take effect.
PurgeCommit ==
    /\ purge.pc = "commit"
    /\ \/ /\ purge' = PurgeRaised(purge, "500")
          /\ UNCHANGED tables
       \/ /\ purge' = [purge EXCEPT !.pc = "done", !.result = "ok",
                                    !.deleted = NoDeletes]
          /\ tables' = [tb \in DOMAIN tables |->
                          IF tb \in CheckpointTables
                            THEN tables[tb] \ purge.deleted[tb]
                            ELSE tables[tb]]
    /\ UNCHANGED <<cache, build, skill_calls>>

\* The call is over.
PurgeReturn ==
    /\ purge.pc = "done"
    /\ purge' = IdlePurge
    /\ UNCHANGED <<cache, tables, build, skill_calls>>

\* ------------------------------------------------- models/skill.py, 19-198
\* AgentSkillData and ThreadSkillData, one call after another.  The database
\* is taken to answer every statement.
SkillKinds == {"agent", "thread"}

TableOf(kind) == IF kind = "agent" THEN "agent_skill_data" ELSE "thread_skill_data"

\* The row an instance of either class stands for.
SkillRow(kind, agent_id, thread_id, data) ==
    IF kind = "agent"
      THEN [AgentSkillRow(agent_id) EXCEPT !.data = data]
      ELSE [ThreadSkillRow(agent_id, thread_id) EXCEPT !.data = data]

\* Lines 34-36 and 119-121: the columns of the primary key.
PrimaryKey(kind, row) ==
    IF kind = "agent" THEN <<row.agent_id, row.skill, row.key>>
                      ELSE <<row.thread_id, row.skill, row.key>>

\* Lines 68-72, 82-86, 155-159 and 173-177: select(cls).where(...).
SelectRows(table, kind, row) ==
    {x \in table : PrimaryKey(kind, x) = PrimaryKey(kind, row)}

\* Lines 74-75 and 161-162: .first() and `result.data if result else None`;
\* None is the empty sequence, data d is <<d>>.
FirstData(rows) == IF rows = {} THEN <<>> ELSE <<(CHOOSE x \in rows : TRUE).data>>

\* Lines 89-93 and 180-185: what save adds to the session.
Updated(kind, existing, self) ==
    IF kind = "agent" THEN [existing EXCEPT !.data = self.data]
                      ELSE [existing EXCEPT !.data = self.data,
                                            !.agent_id = self.agent_id]

Saved(table, kind, self) ==
    LET rows == SelectRows(table, kind, self)
    IN  IF rows # {}
          THEN LET existing == CHOOSE x \in rows : TRUE
               IN  (table \ {existing}) \cup {Updated(kind, existing, self)}
          ELSE table \cup {self}

\* Lines 99 and 191-198: the rows the DELETE of clean_data selects.
CleanMatch(kind, row, agent_id, thread_id) ==
    IF kind = "agent" THEN AgentSkillMatch(row, agent_id)
                      ELSE ThreadSkillMatch(row, agent_id, thread_id)

\* What the two tables would hold if every save and every clean_data took
\* effect: what `get` is expected to find.
NoRows == [agent_skill_data |-> {}, thread_skill_data |-> {}]

\* No call is running.
IdleSkillOp ==
    [pc |-> "idle", op |-> "none", kind |-> "agent", self |-> <<>>,
     thread_id |-> <<>>, result |-> <<>>, expect |-> NoRows]


\* A call arrives: get(agent_id | thread_id, skill, key), save() of an
\* instance, or clean_data(agent_id [, thread_id]).
SkillDataCall(I, T, D) ==
    /\ skill_op.pc = "idle"
    /\ \E kind \in SkillKinds :
         LET NoThread == {<<>>}
             OfThread == IF kind = "agent" THEN NoThread ELSE T
         IN  \/ \E a \in (IF kind = "agent" THEN I ELSE {<<>>}), t \in OfThread :
                  skill_op' = [skill_op EXCEPT
                                 !.pc = "get", !.op = "get", !.kind = kind,
                                 !.self = SkillRow(kind, a, t, 0),
                                 !.thread_id = t, !.result = <<>>]
             \/ \E a \in I, t \in OfThread, d \in D :
                  skill_op' = [skill_op EXCEPT
                                 !.pc = "save", !.op = "save", !.kind = kind,
                                 !.self = SkillRow(kind, a, t, d),
                                 !.thread_id = t, !.result = <<>>]
             \/ \E a \in I, t \in OfThread \cup NoThread :
                  skill_op' = [skill_op EXCEPT
                                 !.pc = "clean_data", !.op = "clean_data",
                                 !.kind = kind,
                                 !.self = SkillRow(kind, a, t, 0),
                                 !.thread_id = t, !.result = <<>>]
    /\ UNCHANGED <<cache, tables, purge, build, timeline, tokens>>

\* Lines 65-75 and 152-162: get.
SkillDataGet ==
    /\ skill_op.pc = "get"
    /\ skill_op' = [skill_op EXCEPT
                      !.pc = "done",
                      !.result = FirstData(SelectRows(tables[TableOf(skill_op.kind)],
                                                      skill_op.kind, skill_op.self))]
    /\ UNCHANGED <<cache, tables, purge, build, timeline, tokens>>

\* Lines 79-94 and 170-186: save selects the existing row, updates it or
\* adds the instance, and commits.
SkillDataSave ==
    /\ skill_op.pc = "save"
    /\ LET tb == TableOf(skill_op.kind)
       IN  /\ tables' = [tables EXCEPT
                           ![tb] = Saved(@, skill_op.kind, skill_op.self)]
           /\ skill_op' = [skill_op EXCEPT
                             !.pc = "done",
                             !.expect[tb] = Saved(@, skill_op.kind, skill_op.self)]
    /\ UNCHANGED <<cache, purge, build, timeline, tokens>>

\* Lines 96-99 and 188-198: clean_data issues its DELETE and leaves the
\* session without a commit.
SkillDataClean ==
    /\ skill_op.pc = "clean_data"
    /\ LET tb == TableOf(skill_op.kind)
           Kept(table) ==
               {row \in table : ~CleanMatch(skill_op.kind, row,
                                            skill_op.self.agent_id,
                                            skill_op.thread_id)}
       IN  /\ \E kept \in SessionKeeps :
                tables' = IF kept THEN [tables EXCEPT ![tb] = Kept(@)] ELSE tables
           /\ skill_op' = [skill_op EXCEPT !.pc = "done", !.expect[tb] = Kept(@)]
    /\ UNCHANGED <<cache, purge, build, timeline, tokens>>

\* The call is over.
SkillDataReturn ==
    /\ skill_op.pc = "done"
    /\ skill_op' = [IdleSkillOp EXCEPT !.expect = skill_op.expect]
    /\ UNCHANGED <<cache, tables, purge, build, timeline, tokens>>

\* ------------------------------ skills/twitter/get_timeline.py, 50-147
\* dict.get(key): None is 0.
DictGet(d, k) == IF k \in DOMAIN d THEN d[k] ELSE 0

\* TwitterBaseTool._get_error_with_username: the message, with the name of
\* the account; it returns a string for every message.
GetErrorWithUsername(message) == <<message>>

\* SkillStore.get_agent_skill_data and save_agent_skill_data for the entry
\* "last" of the agent and this skill: get returns what the last save
\* stored ({} stands for None: line 81 makes no difference between them).
SkillStoreGet(store) == store

SkillStoreSave(store, data) == data

\* Lines 72-75, 88-93, 97-102 and 145-147: an output with no tweets and an
\* error text.
ErrorOutput(message) ==
    [raised |-> FALSE, tweets |-> <<>>, error |-> GetErrorWithUsername(message)]

\* A variant in which the exception leaves _arun.
ExceptPropagates(r, place, e) ==
    [r EXCEPT !.pc = "done", !.at = place,
              !.output = [raised |-> TRUE, tweets |-> <<>>, error |-> <<e>>]]

\* Lines 143-147: every exception raised inside the try is turned into an
\* error output.
Except(r, place, e) ==
    [r EXCEPT !.pc = "done", !.at = place, !.output = ErrorOutput(e)]

\* One of the returns of lines 72-75, 88-93 and 97-102.
ReturnError(r, place, message) ==
    [r EXCEPT !.pc = "done", !.at = place, !.output = ErrorOutput(message)]

\* A variant that keeps the caller's max_results.
SinceMaxResultsKeep(since_id, max_results) == max_results

\* Lines 83-84: with a cursor the page is as large as the API allows.
SinceMaxResults(since_id, max_results) == IF since_id # 0 THEN 100 ELSE max_results

\* No call is running; `store` is the skill store's entry "last" of the
\* agent and this skill ({} when there is none), which outlives the calls.
IdleTimeline(store) ==
    [pc |-> "idle", store |-> store, before |-> <<>>, use_key |-> FALSE,
     max_results |-> 0, last |-> <<>>, since_id |-> 0, request |-> <<>>,
     newest_id |-> 0, output |-> <<>>, at |-> "none"]

\* Lines 62-67: the call arrives and max_results is made an integer.
TimelineCall(Args) ==
    /\ timeline.pc = "idle"
    /\ \E arg \in Args, use_key \in BOOLEAN :
         LET r == [timeline EXCEPT !.before = timeline.store, !.use_key = use_key]
         IN  timeline' =
               IF ~arg.integer THEN Except(r, "int", "ValueError")
               ELSE [r EXCEPT !.max_results = arg.v,
                              !.pc = IF use_key THEN "get_last" ELSE "rate_limit"]
    /\ UNCHANGED <<cache, tables, purge, build, skill_op, tokens>>

\* Lines 67-75: check_rate_limit answers.
TimelineRateLimit ==
    /\ timeline.pc = "rate_limit"
    /\ \/ timeline' = Except(timeline, "rate_limit_raise", "error")
       \/ timeline' = ReturnError(timeline, "rate_limit", "rate limited")
       \/ timeline' = [timeline EXCEPT !.pc = "get_last"]
    /\ UNCHANGED <<cache, tables, purge, build, skill_op, tokens>>

\* Lines 77-84: the cursor is read from the store.
TimelineGetLast ==
    /\ timeline.pc = "get_last"
    /\ \/ timeline' = Except(timeline, "get_last", "store error")
       \/ LET last == SkillStoreGet(timeline.store)
              since_id == DictGet(last, "since_id")
          IN  timeline' = [timeline EXCEPT
                             !.pc = "get_client", !.last = last,
                             !.since_id = since_id,
                             !.max_results = SinceMaxResults(since_id, @)]
    /\ UNCHANGED <<cache, tables, purge, build, skill_op, tokens>>

\* Lines 86-102: the client and the user id.
TimelineGetClient ==
    /\ timeline.pc = "get_client"
    /\ \/ timeline' = Except(timeline, "client_raise", "error")
       \/ timeline' = ReturnError(timeline, "client", "Failed to get Twitter client.")
       \/ timeline' = ReturnError(timeline, "user_id", "Failed to get Twitter user ID.")
       \/ timeline' = [timeline EXCEPT !.pc = "fetch"]
    /\ UNCHANGED <<cache, tables, purge, build, skill_op, tokens>>

\* Lines 104-141: the request is made; the API raises, or answers with or
\* without meta.newest_id (0: without).
TimelineFetch(Ids, Tweets) ==
    /\ timeline.pc = "fetch"
    /\ LET r == [timeline EXCEPT
                   !.request = <<[since_id |-> timeline.since_id,
                                  max_results |-> timeline.max_results]>>]
       IN  \/ timeline' = Except(r, "fetch", "api error")
           \/ \E newest_id \in Ids \cup {0}, result \in Tweets :
                LET out == [raised |-> FALSE, tweets |-> result, error |-> <<>>]
                IN  timeline' =
                      IF newest_id # 0
                        THEN [r EXCEPT !.pc = "save", !.newest_id = newest_id,
                                       !.last = DictSet(@, "since_id", newest_id),
                                       !.output = out]
                        ELSE [r EXCEPT !.pc = "done", !.at = "ok", !.output = out]
    /\ UNCHANGED <<cache, tables, purge, build, skill_op, tokens>>

\* Lines 137-141: the cursor is saved and the tweets are returned.
TimelineSave ==
    /\ timeline.pc = "save"
    /\ \/ timeline' = Except(timeline, "save", "store error")
       \/ timeline' = [timeline EXCEPT !.pc = "done", !.at = "ok",
                                       !.store = SkillStoreSave(@, timeline.last)]
    /\ UNCHANGED <<cache, tables, purge, build, skill_op, tokens>>

\* The call is over.
TimelineReturn ==
    /\ timeline.pc = "done"
    /\ timeline' = IdleTimeline(timeline.store)
    /\ UNCHANGED <<cache, tables, purge, build, skill_op, tokens>>

\* ------------------------------------ skills/enso/tokens.py, 102-164
\* A keyword argument is <<>> when it is absent or None and <<v>> when it
\* is given; a string is the sequence of its pieces.
NoKwargs == [chain_id |-> <<>>, protocol_slug |-> <<>>, token_type |-> <<>>,
             underlying_tokens |-> [type |-> "none", v |-> <<>>]]

\* Python's truth value of kwargs.get(name).
Truthy(arg, falsy) == arg # <<>> /\ arg[1] # falsy

\* Line 137: ",".join(list).
RECURSIVE Join(_)
Join(list) ==
    IF list = <<>> THEN <<>>
    ELSE IF Len(list) = 1 THEN list[1]
    ELSE list[1] \o <<",">> \o Join(Tail(list))

\* Lines 133-137: the underlyingTokens parameter (<<>>: not sent).
UnderlyingTokens(arg) ==
    IF arg.type = "str" /\ arg.v # <<>> THEN <<arg.v>>
    ELSE IF arg.type = "list" /\ arg.v # <<>> THEN <<Join(arg.v)>>
    ELSE <<>>

\* Lines 118-137: the query parameters (<<>>: not sent).
Params(kwargs) ==
    [page |-> 1, includeMetadata |-> "true",
     chainId |-> IF Truthy(kwargs.chain_id, 0) THEN kwargs.chain_id ELSE <<>>,
     protocolSlug |-> IF Truthy(kwargs.protocol_slug, "")
                        THEN kwargs.protocol_slug ELSE <<>>,
     type |-> IF Truthy(kwargs.token_type, "") THEN kwargs.token_type ELSE <<>>,
     underlyingTokens |-> UnderlyingTokens(kwargs.underlying_tokens)]

\* Lines 146-149: the items with an apy or with a symbol of main_tokens.
MainTokens == {"USDC"}

IsKept(item) == item.apy # 0 \/ item.symbol \in MainTokens

\* Lines 141-157: the output made of the response; res is <<>> for None.
TokensOutput(response) ==
    IF response.kind = "ok"
      THEN [res |-> <<SelectSeq(response.data, IsKept)>>, error |-> <<>>]
      ELSE [res |-> <<>>, error |-> <<response.kind>>]

\* No call is running.
IdleTokens ==
    [pc |-> "idle", entry |-> "none", kwargs |-> NoKwargs, received |-> NoKwargs,
     params |-> <<>>, response |-> <<>>, output |-> <<>>]

\* _run or _arun is called with keyword arguments.
TokensCall(K) ==
    /\ tokens.pc = "idle"
    /\ \E kwargs \in K :
         \/ tokens' = [IdleTokens EXCEPT !.pc = "_run", !.entry = "_run",
                                         !.kwargs = kwargs, !.received = kwargs]
         \/ tokens' = [IdleTokens EXCEPT !.pc = "_arun", !.entry = "_arun",
                                         !.kwargs = kwargs]
    /\ UNCHANGED <<cache, tables, purge, build, skill_op, timeline>>

\* Lines 159-164: _arun calls self._run(), which gets no keyword argument.
TokensArun ==
    /\ tokens.pc = "_arun"
    /\ tokens' = [tokens EXCEPT !.pc = "_run", !.received = NoKwargs]
    /\ UNCHANGED <<cache, tables, purge, build, skill_op, timeline>>

\* Lines 112-141: _run sends the request.
TokensRun ==
    /\ tokens.pc = "_run"
    /\ tokens' = [tokens EXCEPT !.pc = "get", !.params = <<Params(tokens.received)>>]
    /\ UNCHANGED <<cache, tables, purge, build, skill_op, timeline>>

\* Lines 141-157: the API answers or fails.
TokensGet(Responses) ==
    /\ tokens.pc = "get"
    /\ \E response \in Responses :
         tokens' = [tokens EXCEPT !.pc = "done", !.response = <<response>>,
                                  !.output = <<TokensOutput(response)>>]
    /\ UNCHANGED <<cache, tables, purge, build, skill_op, timeline>>

\* The call is over.
TokensReturn ==
    /\ tokens.pc = "done"
    /\ tokens' = IdleTokens
    /\ UNCHANGED <<cache, tables, purge, build, skill_op, timeline>>

\* No skill and no store call is running, and no cursor is stored.
SkillsIdle ==
    skill_op = IdleSkillOp /\ timeline = IdleTimeline(<<>>) /\ tokens = IdleTokens

\* ------------------------------------------------------- specifications
Store ==
    \E a \in StoredAids : CreateAgent(a) \/ UpdateAgent(a) \/ DeleteAgent(a)

\* The steps of a request task, but for the debug snapshot.
Task(p, A, D, C, Max) ==
    \/ Call(p, A, D) \/ AgentGet(p) \/ CheckCache(p)
    \/ GetConfig(p) \/ GetData(p) \/ Setup(p) \/ SetData(p) \/ Finish(p)
    \/ Chunk(p, C, Max) \/ StreamEnd(p) \/ StreamRaise(p)
    \/ Cancel(p) \/ Return(p)

\* Outside the specifications of the purge and of the tool resolution the
\* tables are empty and neither runs.
AuxIdle ==
    /\ tables = Seeded({}, {}) /\ purge = IdlePurge /\ build = IdleBuild
    /\ SkillsIdle

\* One request at a time, with the whole vocabulary of the stream.
Init == InitOf(SeqProcs) /\ AuxIdle

Next == Store \/ \E p \in SeqProcs : (Task(p, Aids, BOOLEAN, Chunks, MaxSteps) \/ Snap(p))

Spec == Init /\ [][Next]_vars

\* Two normal-mode requests for one identity interleaved at their awaits,
\* while the identity's config is updated (a normal-mode call never awaits
\* the debug snapshot).
ConcInit == InitOf(ConcProcs) /\ AuxIdle

ConcNext == (\E a \in ConcAids : UpdateAgent(a)) \/ \E p \in ConcProcs : Task(p, ConcAids, ConcDebug, ConcChunks, MaxStepsConc)

ConcSpec == ConcInit /\ [][ConcNext]_vars

\* Purges one after another, of agents and threads whose rows are seeded.
PurgeIds == {<<"a">>, <<"b">>}
RowThreads == {<<"1">>, <<"2">>}
PurgeThreads == {<<>>, <<"1">>, <<"_">>}

PurgeInit ==
    /\ InitOf(SeqProcs)
    /\ tables = Seeded(PurgeIds, RowThreads)
    /\ purge = IdlePurge
    /\ build = IdleBuild
    /\ SkillsIdle

PurgeStep(I, T) ==
    \/ PurgeCall(I, T) \/ PurgeCheck \/ PurgeAgentSkill
    \/ PurgeThreadSkill \/ PurgeExecute \/ PurgeCommit \/ PurgeReturn

PurgeNext == PurgeStep(PurgeIds, PurgeThreads)

PurgeSpec == PurgeInit /\ [][PurgeNext]_vars

\* Purges one after another where one agent's id starts with another's
\* followed by "-", with thread arguments that are empty, blank, padded or
\* plain.
ScopeIds == {<<"a">>, <<"a", "-", "b">>}
ScopeThreads == {<<>>, <<" ">>, <<" ", "1">>, <<"1">>}

ScopeInit ==
    /\ InitOf(SeqProcs)
    /\ tables = Seeded(ScopeIds, RowThreads)
    /\ purge = IdlePurge
    /\ build = IdleBuild
    /\ SkillsIdle

ScopeNext == PurgeStep(ScopeIds, ScopeThreads)

ScopeSpec == ScopeInit /\ [][ScopeNext]_vars

\* Purges of one agent next to the normal-mode requests of one task, while
\* the agent's config is updated.
CacheIds == {<<"a">>}
CacheThreads == {<<>>, <<"1">>}

PurgeCacheInit ==
    /\ InitOf(SeqProcs)
    /\ tables = Seeded(CacheIds, {<<"1">>})
    /\ purge = IdlePurge
    /\ build = IdleBuild
    /\ SkillsIdle

PurgeCacheNext ==
    \/ PurgeStep(CacheIds, CacheThreads)
    \/ \E a \in ConcAids : UpdateAgent(a)
    \/ \E p \in SeqProcs : Task(p, ConcAids, ConcDebug, ConcChunks, MaxStepsConc)

PurgeCacheSpec == PurgeCacheInit /\ [][PurgeCacheNext]_vars

\* Builds one after another, of every config of BuildConfigs, with at most
\* one capability raising.
Models == {<<"gpt", "-4o">>, <<"deepseek", "-chat">>, <<"o1", "-deepseek">>}

Categories == {"cdp", "enso", "twitter", "crestal", "common", "skill_sets"}

BuildConfigs ==
    [model : Models, cdp_enabled : BOOLEAN, cdp_skills : {<<>>, <<"x">>},
     enso_skills : {<<>>, <<"x">>}, enso_config : BOOLEAN, enso_enabled : {TRUE},
     twitter_skills : {<<>>, <<"y">>}, crestal_skills : {<<>>, <<"x", "y">>},
     common_skills : {<<>>, <<"y">>}, skill_sets : {<<>>, <<"x">>},
     system_prompt : {TRUE}, name : {TRUE}, prompt : {FALSE},
     prompt_append : BOOLEAN]

BuildFails == {{}} \cup {{c} : c \in Categories}

BuildInit ==
    /\ InitOf(SeqProcs)
    /\ tables = Seeded({}, {})
    /\ purge = IdlePurge
    /\ build = IdleBuild
    /\ SkillsIdle

BuildNext ==
    \/ BuildCall(BuildConfigs, BuildFails) \/ BuildResolve
    \/ BuildAssemble \/ BuildReturn

BuildSpec == BuildInit /\ [][BuildNext]_vars

\* Builds one after another in which no capability raises, of the configs
\* that differ in what the prompt is made of.
PromptConfigs ==
    [model : Models, cdp_enabled : BOOLEAN, cdp_skills : {<<>>},
     enso_skills : {<<>>}, enso_config : {FALSE}, enso_enabled : BOOLEAN,
     twitter_skills : {<<>>, <<"y">>}, crestal_skills : {<<>>},
     common_skills : {<<>>}, skill_sets : {<<>>},
     system_prompt : BOOLEAN, name : BOOLEAN, prompt : BOOLEAN,
     prompt_append : BOOLEAN]

PromptNext ==
    \/ BuildCall(PromptConfigs, {{}}) \/ BuildResolve
    \/ BuildAssemble \/ BuildReturn

PromptSpec == BuildInit /\ [][PromptNext]_vars

\* Calls of AgentSkillData and ThreadSkillData one after another, on tables
\* that start empty.
SkillIds == {<<"a">>, <<"b">>}
SkillThreads == {<<"1">>, <<"2">>}
SkillValues == {1, 2}

SkillDataInit ==
    /\ InitOf(SeqProcs)
    /\ tables = Seeded({}, {})
    /\ purge = IdlePurge
    /\ build = IdleBuild
    /\ skill_op = IdleSkillOp
    /\ timeline = IdleTimeline(<<>>)
    /\ tokens = IdleTokens

SkillDataNext ==
    \/ SkillDataCall(SkillIds, SkillThreads, SkillValues) \/ SkillDataGet
    \/ SkillDataSave \/ SkillDataClean \/ SkillDataReturn

SkillDataSpec == SkillDataInit /\ [][SkillDataNext]_vars

\* Calls of TwitterGetTimeline._arun for one agent, one after another.
TimelineArgs == {[integer |-> TRUE, v |-> 10], [integer |-> FALSE, v |-> 0]}
NewestIds == {1, 2}
TweetLists == {<<>>, <<"tweet">>}

TimelineInit ==
    /\ InitOf(SeqProcs)
    /\ AuxIdle

TimelineNext ==
    \/ TimelineCall(TimelineArgs) \/ TimelineRateLimit \/ TimelineGetLast
    \/ TimelineGetClient \/ TimelineFetch(NewestIds, TweetLists)
    \/ TimelineSave \/ TimelineReturn

TimelineSpec == TimelineInit /\ [][TimelineNext]_vars

\* Calls of EnsoGetTokens._run and ._arun, one after another.
TokensKwargs ==
    [chain_id : {<<>>, <<0>>, <<1>>},
     protocol_slug : {<<>>, <<"aave">>},
     token_type : {<<>>, <<"defi">>},
     underlying_tokens :
        {[type |-> "none", v |-> <<>>], [type |-> "int", v |-> <<"1">>],
         [type |-> "str", v |-> <<"0xA">>], [type |-> "list", v |-> <<>>],
         [type |-> "list", v |-> <<<<"0xA">>, <<"0xB">>>>]}]

TokensResponses ==
    {[kind |-> "Request error", data |-> <<>>],
     [kind |-> "HTTP error", data |-> <<>>],
     [kind |-> "KeyError", data |-> <<>>],
     [kind |-> "ok", data |-> <<>>],
     [kind |-> "ok", data |-> <<[apy |-> 0, symbol |-> "USDC"],
                               [apy |-> 0, symbol |-> "XYZ"],
                               [apy |-> 5, symbol |-> "XYZ"]>>]}

TokensInit ==
    /\ InitOf(SeqProcs)
    /\ AuxIdle

TokensNext ==
    \/ TokensCall(TokensKwargs) \/ TokensArun \/ TokensRun
    \/ TokensGet(TokensResponses) \/ TokensReturn

TokensSpec == TokensInit /\ [][TokensNext]_vars

\* ------------------------------------------------------------- the claims
\* The version recorded for an identity (0: none), and the version the
\* cached pipeline of an identity was built from.
Recorded(aid) == IF aid \in DOMAIN agents_updated THEN agents_updated[aid] ELSE 0

BuiltFrom(oid) == pipes[oid].built_from

\* The call of task p has its pipeline: the build, if any, has returned.
Running(p) == req[p].executor # 0

\* C1: a call for an identity that has a config row and no entry in `agents`
\* runs initialize_agent exactly once, and when that build has returned
\* agents[aid] is the pipeline it made and agents_updated[aid] is the
\* updated_at of the config the build fetched.
C1_ColdBuild ==
    \A p \in DOMAIN req :
        LET r == req[p]
        IN  (r.pre = "absent" /\ r.pc # "done") =>
              /\ r.inits = 1
              /\ Running(p) =>
                   /\ r.aid \in DOMAIN agents
                   /\ agents[r.aid] = r.executor
                   /\ Recorded(r.aid) = BuiltFrom(r.executor)
                   /\ BuiltFrom(r.executor) >= r.agent.updated_at

C1_Witness ==
    \E p \in DOMAIN req :
        /\ req[p].pre = "absent" /\ req[p].pc = "astream"
        /\ req[p].inits = 1 /\ req[p].aid \in DOMAIN agents

\* A call that finds the cached pipeline built from the version it read has
\* built nothing and holds the object stored in agents[aid].
C2_ReuseState ==
    \A p \in DOMAIN req :
        LET r == req[p]
        IN  r.pre = "fresh" =>
              /\ r.inits = 0
              /\ r.result \in {"none", "ok"} =>
                   /\ Running(p)
                   /\ r.executor = agents[r.aid]
                   /\ Recorded(r.aid) = r.agent.updated_at

\* No step changes the cache while such a call is under way.
C2_ReuseStep ==
    (\E p \in DOMAIN req : req'[p].pre = "fresh")
        => UNCHANGED <<agents, agents_updated, pipes>>

\* C2: while the config's updated_at is the one the cached pipeline was
\* built from, a call builds nothing, runs the very object stored in
\* agents[aid], and no step taken during such a call changes `agents` or
\* `agents_updated`.
C2_Reuse == [](C2_ReuseState) /\ [][C2_ReuseStep]_vars

C2_Witness ==
    \E p \in DOMAIN req :
        /\ req[p].pre = "fresh" /\ req[p].pc = "done" /\ req[p].result = "ok"
        /\ req[p].aid \in DOMAIN agents

\* A call that finds the cached pipeline built from an older version has
\* called initialize_agent once; no call rebuilds a fresh pipeline.
C3_RebuildState ==
    \A p \in DOMAIN req :
        LET r == req[p]
        IN  /\ (r.pre = "advanced" /\ r.pc # "done") =>
                 /\ r.path = "stale"
                 /\ r.inits = 1
                 /\ Running(p) =>
                      /\ agents[r.aid] = r.executor
                      /\ r.executor # r.ag0
                      /\ Recorded(r.aid) = BuiltFrom(r.executor)
                      /\ BuiltFrom(r.executor) >= r.agent.updated_at
            /\ r.path = "stale" => r.pre # "fresh"

\* The step that ends a rebuild replaces the object in agents[aid].
C3_RebuildStep ==
    \A p \in DOMAIN req :
        (req[p].path = "stale" /\ ~Running(p) /\ req'[p].executor # 0)
            => /\ agents'[req[p].aid] # agents[req[p].aid]
               /\ agents'[req[p].aid] \notin DOMAIN pipes

\* C3: a call that finds the cached pipeline built from an older config than
\* the one it read rebuilds exactly once; the rebuild puts a new object into
\* agents[aid] and records the version it fetched; and no call rebuilds a
\* pipeline that was built from the very version the call read.
C3_Rebuild == [](C3_RebuildState) /\ [][C3_RebuildStep]_vars

C3_Witness ==
    \E p \in DOMAIN req :
        /\ req[p].pre = "advanced" /\ req[p].pc = "astream"
        /\ Len(req[p].chunks) > 0
        /\ agents[req[p].aid] # req[p].ag0 /\ req[p].ag0 # 0

\* The cache entry of an identity (0: none).
Cached(aid) == IF aid \in DOMAIN agents THEN agents[aid] ELSE 0

\* C4: when initialize_agent fails or is abandoned before it completes, the
\* identity's cache entry is what it was when the build started: the
\* pipeline in agents[aid] and the version in agents_updated[aid].
C4_FailedBuildKeepsEntry ==
    \A p \in DOMAIN req :
        LET r == req[p]
        IN  (r.pc = "done" /\ r.at = "build") =>
              /\ Cached(r.aid) = r.ag0
              /\ Recorded(r.aid) = r.au0

\* A running call keeps its object, and the object keeps its contents.
C5_HeldStep ==
    \A p \in DOMAIN req :
        (Running(p) /\ req'[p].pc \in {"aget_state", "astream"}) =>
            /\ req'[p].executor = req[p].executor
            /\ req[p].executor \in DOMAIN pipes'
            /\ pipes'[req[p].executor] = pipes[req[p].executor]

\* A build installs an object that did not exist and that no call holds.
C5_InstallStep ==
    \A p \in DOMAIN req :
        (req[p].pc \in BuildPlaces /\ req'[p].executor # 0) =>
            /\ agents'[req[p].aid] = req'[p].executor
            /\ req'[p].executor \notin DOMAIN pipes
            /\ \A q \in DOMAIN req : req[q].executor # req'[p].executor

\* The object a running call holds is alive and is a pipeline of its identity.
C5_HeldState ==
    \A p \in DOMAIN req :
        Running(p) => (req[p].executor \in DOMAIN pipes
                       /\ pipes[req[p].executor].aid = req[p].aid)

\* C5: a call that has its pipeline keeps that very object, unchanged, for
\* as long as it runs, whatever the other requests do; and a build that
\* installs a pipeline puts into agents[aid] an object that did not exist
\* before, so never one a running call holds.
C5_InFlightUnaffected ==
    [](C5_HeldState) /\ [][C5_HeldStep /\ C5_InstallStep]_vars

C5_Witness ==
    \E p, q \in DOMAIN req :
        /\ p # q /\ req[p].aid = req[q].aid
        /\ req[p].pc = "astream" /\ req[q].pc = "astream"
        /\ req[q].path = "stale"
        /\ agents[req[q].aid] = req[q].executor
        /\ req[p].executor # req[q].executor
        /\ BuiltFrom(req[p].executor) # BuiltFrom(req[q].executor)

\* A call whose Agent.get found no row has ended with 404 at line 331.
C6_UnknownState ==
    \A p \in DOMAIN req :
        LET r == req[p]
        IN  r.pre = "unknown" =>
              /\ r.pc = "done" /\ r.result = "404" /\ r.at = "check"
              /\ r.inits = 0 /\ r.executor = 0 /\ r.chunks = <<>>

\* The step that ends it leaves the cache alone.
C6_UnknownStep ==
    (\E p \in DOMAIN req : req[p].pre # "unknown" /\ req'[p].pre = "unknown")
        => UNCHANGED <<agents, agents_updated, pipes>>

\* C6: a call whose Agent.get finds no row ends with 404 at once: it has
\* called initialize_agent zero times, taken no pipeline and consumed no
\* chunk, and the step that ends it leaves `agents` and `agents_updated`
\* as they were.
C6_Unknown == [](C6_UnknownState) /\ [][C6_UnknownStep]_vars

C6_Witness ==
    \E p \in DOMAIN req :
        /\ req[p].pre = "unknown" /\ req[p].result = "404"
        /\ req[p].aid \in DOMAIN agents

\* ------------------------------------------------ claims about the output
Range(q) == {q[i] : i \in DOMAIN q}

\* The call of task p has returned its list.
Answered(p) == req[p].pc = "done" /\ req[p].result = "ok"

\* What the call returns in each mode, from the lines it has recorded.
DebugView(r) == Returned(TRUE, r.resp_debug, r.resp, r.resp_debug_append)

NormalView(r) == Returned(FALSE, r.resp_debug, r.resp, r.resp_debug_append)

\* A line that belongs to a step of the stream.
IsStepSeg(s) ==
    \/ s \in {AgentSeg, ThinkingSeg, SkillSeg}
    \/ s.k = "text"
    \/ s.k = "cost" /\ s.v # "start cost"

\* Label L is in the list, before every line of every step.
LabelBeforeSteps(q, L) ==
    \E i \in DOMAIN q :
        /\ q[i] = L
        /\ \A j \in DOMAIN q : IsStepSeg(q[j]) => i < j

\* C7 as claimed: the list returned by a call that built the pipeline holds
\* the build's label before every step line (cold start / reinitialized),
\* and the list of a call that reused the pipeline holds neither label.
C7_LabelInEveryOutput ==
    \A p \in DOMAIN req :
        LET r == req[p]
        IN  Answered(p) =>
              /\ r.path = "cold" => LabelBeforeSteps(r.out, ColdStartSeg)
              /\ r.path = "stale" => LabelBeforeSteps(r.out, ReinitSeg)
              /\ r.path = "reuse" => {ColdStartSeg, ReinitSeg} \cap Range(r.out) = {}

\* C7 as amended: the same for calls in debug mode; in normal mode the list
\* holds no build label at all.
C7_LabelInDebugOutput ==
    \A p \in DOMAIN req :
        LET r == req[p]
        IN  Answered(p) =>
              /\ (r.debug /\ r.path = "cold") =>
                    /\ LabelBeforeSteps(r.out, ColdStartSeg)
                    /\ ReinitSeg \notin Range(r.out)
              /\ (r.debug /\ r.path = "stale") =>
                    /\ LabelBeforeSteps(r.out, ReinitSeg)
                    /\ ColdStartSeg \notin Range(r.out)
              /\ (~r.debug \/ r.path = "reuse") =>
                    {ColdStartSeg, ReinitSeg} \cap Range(r.out) = {}

C7_Witness ==
    \E p \in DOMAIN req :
        /\ Answered(p) /\ req[p].debug /\ req[p].path = "stale"
        /\ Len(req[p].chunks) = MaxSteps
        /\ LabelBeforeSteps(req[p].out, ReinitSeg)

\* The steps of a stream that are model turns or tool turns, and the cost
\* lines of steps in a list.
IsTurn(c) == c.kind \in {"agent", "tools"}

IsStepCost(s) == s.k = "cost" /\ s.v \in {"agent cost", "skill cost"}

CostName(c) == IF c.kind = "agent" THEN "agent cost" ELSE "skill cost"

\* C8: at every moment of a run, the recorded trace holds exactly one cost
\* line per model or tool turn consumed so far, in the order of the turns,
\* whether the turn's payload is empty or not.
C8_OneCostPerStep ==
    \A p \in DOMAIN req :
        LET r == req[p]
            costs == SelectSeq(r.resp_debug, IsStepCost)
            turns == SelectSeq(r.chunks, IsTurn)
        IN  (Running(p) \/ Answered(p)) =>
              /\ Len(costs) = Len(turns)
              /\ \A i \in DOMAIN turns : costs[i].v = CostName(turns[i])

C8_Witness ==
    \E p \in DOMAIN req :
        /\ Answered(p) /\ Len(req[p].chunks) = 2
        /\ req[p].chunks[1] = [kind |-> "agent", v |-> ""]
        /\ req[p].chunks[2] = [kind |-> "tools", v |-> ""]
        /\ Len(SelectSeq(req[p].resp_debug, IsStepCost)) = 2

\* The model turns of a stream, and how often a line occurs in a list.
IsModelTurn(c) == c.kind = "agent"

AllModelTurnsEmpty(ch) == \A i \in DOMAIN ch : IsModelTurn(ch[i]) => ch[i].v = ""

Count(q, x) == Cardinality({i \in DOMAIN q : q[i] = x})

HasText(c) == c.kind = "agent" /\ c.v # ""

ModelTexts(ch) ==
    LET sel == SelectSeq(ch, HasText)
    IN  [i \in 1..Len(sel) |-> TextSeg(sel[i].v)]

\* The projection of a debug list onto model-turn payloads: the text lines
\* that follow an "[ Agent: ]" line.
AfterAgentSeg(m) == m.follows

Projection(q) ==
    LET marked == [i \in 1..Len(q) |->
                     [s |-> q[i],
                      follows |-> i > 1 /\ q[i].k = "text" /\ q[IF i > 1 THEN i - 1 ELSE 1] = AgentSeg]]
        sel == SelectSeq(marked, AfterAgentSeg)
    IN  [i \in 1..Len(sel) |-> sel[i].s]

ShowsText(c) == (c.kind = "agent" /\ c.v # "") \/ c.kind = "tools"

IsText(s) == s.k = "text"

StepTexts(ch) ==
    LET sel == SelectSeq(ch, ShowsText)
    IN  [i \in 1..Len(sel) |-> TextSeg(sel[i].v)]

\* A debug-mode call whose snapshot could not be retrieved returns the list
\* with every step of its stream, the total, and an empty snapshot block.
C11_SnapshotState ==
    \A p \in DOMAIN req :
        LET r == req[p]
        IN  (Answered(p) /\ r.debug /\ r.resp_debug_append = SnapshotSeg("")) =>
              /\ r.out[Len(r.out)] = SnapshotSeg("")
              /\ r.out[Len(r.out) - 1].k = "total"
              /\ SelectSeq(r.out, IsText) = StepTexts(r.chunks)
              /\ Len(SelectSeq(r.out, IsStepCost)) = Len(SelectSeq(r.chunks, IsTurn))

\* The retrieval of the snapshot, failed or not, is followed by the run:
\* only the caller's giving up ends the call there.
C11_SnapshotStep ==
    \A p \in DOMAIN req :
        (req[p].pc = "aget_state" /\ req'[p].pc # "aget_state") =>
            \/ req'[p].pc = "astream" /\ req'[p].executor = req[p].executor
            \/ req'[p].result = "cancelled"

\* C11: in debug mode a failure to retrieve the debug snapshot does not
\* fail execute_agent: the snapshot block is empty, the pipeline is run, and
\* the returned list holds the lines of every step of the run.
C11_SnapshotFailure == [](C11_SnapshotState) /\ [][C11_SnapshotStep]_vars

C11_Witness ==
    \E p \in DOMAIN req :
        /\ Answered(p) /\ req[p].debug
        /\ req[p].resp_debug_append = SnapshotSeg("")
        /\ req[p].chunks = <<[kind |-> "tools", v |-> "done"],
                             [kind |-> "agent", v |-> "hello"]>>
        /\ req[p].out[Len(req[p].out)] = SnapshotSeg("")

\* ------------------------------------------------- claims about the purge
\* The rows of table tb that went since the running purge began.
Gone(tb) == purge.before[tb] \ tables[tb]

\* The purge was called with neither flag.
Flagless == ~purge.clean_agent_memory /\ ~purge.clean_skills_memory

\* C12: a clean_agent_memory call with clean_agent_memory false and
\* clean_skills_memory false ends with HTTP 400 right after the test of the
\* flags, and no row of the five tables is deleted.
C12_NoFlagPurge ==
    (purge.pc # "idle" /\ Flagless) =>
        /\ purge.pc \in {"check", "done"}
        /\ purge.pc = "done" => (purge.result = "400" /\ purge.at = "check")
        /\ tables = purge.before

C12_Witness ==
    /\ purge.pc = "done" /\ Flagless /\ purge.result = "400"
    /\ purge.thread_id = <<"1">>
    /\ CheckpointRow(purge.agent_id, <<"1">>) \in tables.checkpoints
    /\ AgentSkillRow(purge.agent_id) \in tables.agent_skill_data

\* C13: with both flags set and a thread given, the only thread-scoped rows
\* a purge of agent A and thread T1 deletes are the conversation rows whose
\* key is exactly "A-T1" and the thread skill rows of agent A and thread T1;
\* every other conversation row and thread skill row is still there.
C13_ThreadScopedPurge ==
    (/\ purge.pc # "idle"
     /\ purge.clean_agent_memory /\ purge.clean_skills_memory
     /\ purge.thread_id # <<>>) =>
        /\ \A tb \in CheckpointTables : \A row \in Gone(tb) :
             row.thread_id = purge.agent_id \o <<"-">> \o purge.thread_id
        /\ \A row \in Gone("thread_skill_data") :
             row.agent_id = purge.agent_id /\ row.thread_id = purge.thread_id

\* What a purge is asked to delete from table tb.
Asked(tb) ==
    IF tb = "agent_skill_data"
      THEN {row \in purge.before[tb] :
              purge.clean_skills_memory /\ AgentSkillMatch(row, purge.agent_id)}
    ELSE IF tb = "thread_skill_data"
      THEN {row \in purge.before[tb] :
              /\ purge.clean_skills_memory
              /\ ThreadSkillMatch(row, purge.agent_id, purge.thread_id)}
    ELSE {row \in purge.before[tb] :
              /\ purge.clean_agent_memory
              /\ Like(row.thread_id, DeletionParam(purge.agent_id, purge.thread_id))}

\* C14: the deletions of one clean_agent_memory call are one atomic unit:
\* when the call has failed, no table has lost a row, and when it has
\* succeeded, every table has lost all the rows the call was asked to delete.
C14_AtomicPurge ==
    purge.pc = "done" =>
        /\ purge.result # "ok" => tables = purge.before
        /\ purge.result = "ok" =>
             \A tb \in DOMAIN tables : Gone(tb) = Asked(tb)

\* No step of a purge changes the cache.
C15_PurgeStep ==
    (purge' # purge \/ tables' # tables) => UNCHANGED <<agents, agents_updated, pipes>>

\* A call that finds the cached pipeline built from the version it read
\* builds nothing, whatever purges ran.
C15_NoRebuild ==
    \A p \in DOMAIN req : req[p].pre = "fresh" => req[p].inits = 0

\* C15: clean_agent_memory, whatever its arguments and its outcome, leaves
\* `agents` and `agents_updated` as they are, and a later execute_agent for
\* an identity whose config has not changed rebuilds nothing.
C15_PurgeLeavesCache == [](C15_NoRebuild) /\ [][C15_PurgeStep]_vars

C15_Witness ==
    /\ purge.pc = "done" /\ purge.result = "ok"
    /\ purge.clean_agent_memory /\ purge.clean_skills_memory
    /\ tables.checkpoints = {}
    /\ \E p \in DOMAIN req :
         /\ req[p].pre = "fresh" /\ req[p].pc = "astream" /\ req[p].inits = 0
         /\ req[p].executor = agents[req[p].aid]

\* -------------------------------------------------- claims about the build
\* A build has installed its pipeline.
Installed == build.pc = "done" /\ build.result = "installed"

Names(tools) == {tools[i].name : i \in DOMAIN tools}

ToolCapable(cfg) == [cfg EXCEPT !.model = <<"gpt", "-4o">>]

\* C17 as claimed: for a model selector that starts with deepseek the
\* pipeline gets no tools whatever was resolved, its budget is 60000 instead
\* of 120000, and its prompt is the one a tool-capable model would get.
C17_DeepseekSamePrompt ==
    (Installed /\ IsDeepseek(build.config.model)) =>
        /\ build.pipeline.tools = <<>>
        /\ build.pipeline.input_token_limit = 60000
        /\ InputTokenLimit(ToolCapable(build.config).model) = 120000
        /\ build.pipeline.prompt = PromptArray(ToolCapable(build.config))

\* The system messages of a prompt, in order.
IsSystem(m) == m.role = "system"

SystemTexts(prompt) ==
    LET sel == SelectSeq(prompt, IsSystem)
    IN  [i \in 1..Len(sel) |-> sel[i].text]

\* C17 as amended: no tools and the lower budget; the system message made
\* by agent_prompt is bound as for a tool-capable model, the twitter block
\* is left out, and prompt_append, when set, comes first instead of last.
\* Any other model keeps the deduplicated tools and the budget of 120000.
C17_DeepseekBuild ==
    Installed =>
        LET cfg == build.config
            pl == build.pipeline
            main == AgentPrompt(cfg)
        IN  IF IsDeepseek(cfg.model)
              THEN /\ pl.tools = <<>>
                   /\ pl.input_token_limit = 60000
                   /\ SystemTexts(pl.prompt) =
                        IF cfg.prompt_append THEN <<<<"prompt_append">>, main>>
                                             ELSE <<main>>
                   /\ SystemTexts(PromptArray(ToolCapable(cfg)))[1] = main
                   /\ pl.prompt[Len(pl.prompt)].role = "placeholder"
              ELSE /\ pl.tools = pl.deduped
                   /\ pl.input_token_limit = 120000

C17_Witness ==
    /\ Installed /\ IsDeepseek(build.config.model)
    /\ build.pipeline.deduped # <<>> /\ build.pipeline.tools = <<>>
    /\ Len(build.config.twitter_skills) > 0 /\ build.config.prompt_append
    /\ Len(build.pipeline.prompt) = 3

\* The capabilities of a config whose setup or resolver the build calls.
Enabled(cfg, cat) ==
    IF cat = "cdp" THEN cfg.cdp_enabled
    ELSE IF cat = "enso" THEN Len(cfg.enso_skills) > 0 /\ cfg.enso_config
    ELSE IF cat = "twitter" THEN Len(cfg.twitter_skills) > 0
    ELSE IF cat = "crestal" THEN Len(cfg.crestal_skills) > 0
    ELSE IF cat = "common" THEN Len(cfg.common_skills) > 0
    ELSE Len(cfg.skill_sets) > 0

\* C18: whichever capability raises while it is set up or resolved, the
\* build completes and installs a pipeline, and the pipeline's resolved
\* tools are those of all the capabilities that did not raise.
C18_CapabilityFailureSwallowed ==
    (build.pc = "done" /\ \E c \in build.fails : Enabled(build.config, c)) =>
        /\ build.result = "installed"
        /\ build.tools = ResolveTools(build.config, {}).tools
             \/ \E c \in build.fails :
                  build.tools = SelectSeq(ResolveTools(build.config, {}).tools,
                                          LAMBDA t : t.from # c)

\* ------------------------------------------- claims about concurrent calls
\* Once an identity with the wallet capability has a pipeline, its wallet is
\* in the runtime data.
C19_WalletStored ==
    \A a \in DOMAIN agents :
        (agent_table[a].found /\ agent_table[a].cdp_enabled) => agent_data[a] # 0

\* A stored wallet is never replaced.
C19_WalletKept ==
    \A a \in DOMAIN agent_data :
        agent_data[a] # 0 => agent_data'[a] = agent_data[a]

\* C19: however the builds of one identity with the wallet capability
\* follow one another or interleave, the wallet is in the runtime data
\* before a build returns, and a wallet once stored is never written again.
C19_WalletOnce == [](C19_WalletStored) /\ [][C19_WalletKept]_vars

\* C20: in every reachable state, if agents[aid] holds a pipeline then
\* agents_updated[aid] is the updated_at of the config it was built from;
\* so a call that takes the cached pipeline for fresh runs a pipeline built
\* from the version the call read.
C20_VersionMatchesPipeline ==
    /\ \A a \in DOMAIN agents : Recorded(a) = BuiltFrom(agents[a])
    /\ \A p \in DOMAIN req :
         (req[p].path = "reuse" /\ Running(p)) =>
             BuiltFrom(req[p].executor) = req[p].agent.updated_at

\* ------------------------------------------- claims about timing and output
\* The cost lines of the recorded trace, and the place of its first step line.
IsStartCost(s) == s.k = "cost" /\ s.v = "start cost"

HasTurn(ch) == \E i \in DOMAIN ch : IsTurn(ch[i])

FirstTurn(ch) == CHOOSE i \in DOMAIN ch : IsTurn(ch[i]) /\ \A j \in 1..(i - 1) : ~IsTurn(ch[j])

FirstStepLine(q) == CHOOSE i \in DOMAIN q : IsStepSeg(q[i]) /\ \A j \in 1..(i - 1) : ~IsStepSeg(q[j])

\* The awaits between the moment the call has its pipeline and the end of
\* its first model or tool turn: the snapshot in debug mode, and the chunks
\* up to that turn.
SinceBoundary(r) == (IF r.debug THEN 1 ELSE 0) + FirstTurn(r.chunks)

\* C21 as claimed: every call that has consumed a step, whether it built,
\* rebuilt or reused the pipeline, has recorded one start cost line before
\* the lines of its first step, and the cost of that step is the time since
\* the call had its pipeline.
C21_StartCostAlways ==
    \A p \in DOMAIN req :
        LET r == req[p]
            q == r.resp_debug
            costs == SelectSeq(q, IsStepCost)
        IN  ((Running(p) \/ Answered(p)) /\ HasTurn(r.chunks)) =>
              /\ Len(SelectSeq(q, IsStartCost)) = 1
              /\ \E i \in DOMAIN q : IsStartCost(q[i]) /\ i < FirstStepLine(q)
              /\ costs[1].d = SinceBoundary(r)

\* C21 as amended: the same for a call that built or rebuilt the pipeline;
\* a call that reused it has recorded no start cost line, and the cost of
\* its first step also counts the time of the lookup (the await of line 329).
C21_StartCostWhenBuilt ==
    \A p \in DOMAIN req :
        LET r == req[p]
            q == r.resp_debug
            costs == SelectSeq(q, IsStepCost)
        IN  ((Running(p) \/ Answered(p)) /\ HasTurn(r.chunks)) =>
              IF r.path \in {"cold", "stale"}
                THEN /\ Len(SelectSeq(q, IsStartCost)) = 1
                     /\ \E i \in DOMAIN q :
                          /\ IsStartCost(q[i]) /\ i < FirstStepLine(q)
                          /\ q[i].d >= 3
                     /\ costs[1].d = SinceBoundary(r)
                ELSE /\ SelectSeq(q, IsStartCost) = <<>>
                     /\ costs[1].d = 1 + SinceBoundary(r)

C21_Witness ==
    \E p \in DOMAIN req :
        /\ Answered(p) /\ req[p].path = "stale" /\ req[p].debug
        /\ req[p].chunks = <<[kind |-> "other", v |-> ""],
                             [kind |-> "tools", v |-> "done"]>>
        /\ SelectSeq(req[p].resp_debug, IsStepCost)[1].d = 3

\* Is q the beginning of s?
IsPrefix(q, s) == Len(q) <= Len(s) /\ SubSeq(s, 1, Len(q)) = q

\* C22 as claimed: a caller that abandons the call while the stream is
\* consumed has received the lines of the steps consumed so far.
C22_AbandonedGetsSteps ==
    \A p \in DOMAIN req :
        (/\ req[p].pc = "astream"
         /\ req'[p].pc = "done" /\ req'[p].result = "cancelled") =>
            SelectSeq(req'[p].out, IsText) =
                IF req[p].debug THEN StepTexts(req[p].chunks)
                                ELSE ModelTexts(req[p].chunks)

C22_Abandoned == [][C22_AbandonedGetsSteps]_vars

\* Consuming a chunk adds lines at the end of the recorded lists and hands
\* nothing to the caller.
C22_ChunkStep ==
    \A p \in DOMAIN req :
        (req[p].pc = "astream" /\ req'[p].pc = "astream") =>
            /\ IsPrefix(req[p].resp_debug, req'[p].resp_debug)
            /\ IsPrefix(req[p].resp, req'[p].resp)
            /\ req'[p].out = <<>>

\* The caller has the lines only when the stream has ended, and then all
\* of them in the order of the steps.
C22_OutState ==
    \A p \in DOMAIN req :
        LET r == req[p]
        IN  /\ ~Answered(p) => r.out = <<>>
            /\ Answered(p) =>
                 SelectSeq(r.out, IsText) =
                    IF r.debug THEN StepTexts(r.chunks) ELSE ModelTexts(r.chunks)

\* C22 as amended: the lines of the steps accumulate in the order of
\* arrival, each step adding to the end of the lists; the caller receives
\* them all at once when the stream has ended, and a call that is abandoned
\* or fails before that hands over nothing.
C22_OutputAtEnd == [](C22_OutState) /\ [][C22_ChunkStep]_vars

C22_Witness ==
    \E p \in DOMAIN req :
        /\ req[p].pc = "astream" /\ Len(req[p].chunks) = MaxSteps
        /\ Len(req[p].resp) = MaxSteps /\ req[p].out = <<>>

\* ------------------------------------------------- claims about the prompt
\* The fragments of the system messages of a prompt, in order.
RECURSIVE Flatten(_)
Flatten(texts) == IF texts = <<>> THEN <<>> ELSE Head(texts) \o Flatten(Tail(texts))

\* The fragment of a part that is present.
Part(present, fragment) == IF present THEN <<fragment>> ELSE <<>>

\* C23 as claimed: for every config and model selector the system prompt is,
\* in this order, the global prefix if configured, the identity line, the
\* custom prompt or, exactly when there is none, the default fallback, the
\* guidance of each enabled capability, and last the suffix.
C23_FixedOrder ==
    Installed =>
        LET cfg == build.config
        IN  Flatten(SystemTexts(build.pipeline.prompt)) =
              Part(cfg.system_prompt, "system_prompt")
              \o Part(cfg.name, "name")
              \o (IF cfg.prompt THEN <<"prompt">> ELSE <<"cdp default">>)
              \o Part(cfg.cdp_enabled, "cdp guidance")
              \o Part(cfg.enso_enabled, "enso guidance")
              \o Part(Len(cfg.twitter_skills) > 0, "twitter_prompt")
              \o Part(cfg.prompt_append, "prompt_append")

\* C23 as amended: the first system message is the prefix if configured,
\* the identity line if the agent is named, the custom prompt or, when there
\* is none and the wallet capability is on, the default fallback, then the
\* wallet and the enso guidance when enabled, and the placeholder of the
\* conversation follows it.  For a model selector that does not start with
\* deepseek the twitter guidance and then the suffix follow as system
\* messages of their own; for one that does, the twitter guidance is left
\* out and the suffix is a system message before all the others.
C23_PromptOrder ==
    Installed =>
        LET cfg == build.config
            pl == build.pipeline
            main == Part(cfg.system_prompt, "system_prompt")
                    \o Part(cfg.name, "name")
                    \o (IF cfg.prompt THEN <<"prompt">>
                        ELSE Part(cfg.cdp_enabled, "cdp default"))
                    \o Part(cfg.cdp_enabled, "cdp guidance")
                    \o Part(cfg.enso_enabled, "enso guidance")
            suffix == Part(cfg.prompt_append, <<"prompt_append">>)
            twitter == Part(Len(cfg.twitter_skills) > 0, <<"twitter_prompt">>)
            first == IF IsDeepseek(cfg.model) THEN Len(suffix) + 1 ELSE 1
        IN  /\ SystemTexts(pl.prompt) =
                 IF IsDeepseek(cfg.model) THEN suffix \o <<main>>
                                          ELSE <<main>> \o twitter \o suffix
            /\ pl.prompt[first].text = main
            /\ pl.prompt[first + 1].role = "placeholder"

C23_Witness ==
    /\ Installed /\ ~IsDeepseek(build.config.model)
    /\ ~build.config.prompt /\ build.config.cdp_enabled
    /\ build.config.system_prompt /\ build.config.name
    /\ build.config.enso_enabled /\ build.config.prompt_append
    /\ Len(build.config.twitter_skills) > 0
    /\ Len(build.pipeline.prompt) = 4
    /\ build.pipeline.prompt[4].text = <<"prompt_append">>

\* C26: a build of an agent with enso skills and an enso config but without
\* the wallet capability resolves every enso skill whose resolver does not
\* raise, so that each of them is among the resolved tools.
C26_EnsoWithoutWallet ==
    LET cfg == build.config
    IN  (/\ Installed /\ ~cfg.cdp_enabled /\ cfg.enso_config
         /\ Len(cfg.enso_skills) > 0 /\ "enso" \notin build.fails) =>
            \A i \in 1..Len(cfg.enso_skills) :
                \E j \in 1..Len(build.tools) :
                    build.tools[j] = Tool(cfg.enso_skills[i], "enso")

\* -------------------------------------- claims about the scope of a purge
\* C24: a conversation purge for an identity with no thread given leaves
\* every conversation row of every other identity in place, also of an
\* identity whose string starts with the purged one followed by "-".
C24_OtherIdentitiesKept ==
    (/\ purge.pc = "done" /\ purge.result = "ok"
     /\ purge.clean_agent_memory /\ Strip(purge.thread_id) = <<>>) =>
        \A B \in ScopeIds \ {purge.agent_id}, t \in RowThreads, tb \in CheckpointTables :
            CheckpointRow(B, t) \in purge.before[tb] =>
                CheckpointRow(B, t) \in tables[tb]

\* The threads of an agent whose rows the skill-data purge and the
\* conversation purge select for a thread_id argument.
SkillScope(agent_id, thread_id) ==
    {t \in RowThreads : ThreadSkillMatch(ThreadSkillRow(agent_id, t), agent_id, thread_id)}

ConversationScope(agent_id, thread_id) ==
    {t \in RowThreads :
        Like(CheckpointRow(agent_id, t).thread_id, DeletionParam(agent_id, thread_id))}

\* C25: in a call with both flags set, whatever the thread_id argument
\* (empty, blank, padded or plain), the skill-data purge and the
\* conversation purge select the same threads of the identity.
C25_SameScope ==
    (/\ purge.pc = "done" /\ purge.result = "ok"
     /\ purge.clean_agent_memory /\ purge.clean_skills_memory) =>
        SkillScope(purge.agent_id, purge.thread_id)
            = ConversationScope(purge.agent_id, purge.thread_id)

\* ---------------------------------------------- claims about the skill data
\* Either table holds at most one row per primary key.
OneRowPerKey ==
    \A kind \in SkillKinds :
        \A x, y \in tables[TableOf(kind)] :
            PrimaryKey(kind, x) = PrimaryKey(kind, y) => x = y

\* A get returned the data of the last save of its key, and None when the
\* key was never saved or its row was cleaned since.
GetsLastSave ==
    (skill_op.pc = "done" /\ skill_op.op = "get") =>
        skill_op.result =
            FirstData(SelectRows(skill_op.expect[TableOf(skill_op.kind)],
                                 skill_op.kind, skill_op.self))

\* A save leaves the rows of every other key as they are.
SaveKeepsOthers ==
    (skill_op.pc = "save" /\ skill_op'.pc = "done") =>
        \A kind \in SkillKinds :
            \A x \in tables[TableOf(kind)] :
                (kind # skill_op.kind
                 \/ PrimaryKey(kind, x) # PrimaryKey(kind, skill_op.self)) =>
                    x \in tables'[TableOf(kind)]

\* C30: after any sequence of calls each table holds at most one row per
\* key, get returns the data of the key's last save (None if it was never
\* saved or after clean_data for its agent), and a save never changes a row
\* with a different key.
C30_LastSaveWins ==
    [](OneRowPerKey /\ GetsLastSave) /\ [][SaveKeepsOthers]_vars

\* -------------------------------------------- claims about the two skills
\* The outcomes of a call that is not a successful fetch.
TimelineFailed == timeline.pc = "done" /\ timeline.at # "ok"

\* The stored cursor (0: none).
Cursor(store) == DictGet(store, "since_id")

\* The stored cursor changes only in the save of a call whose request was
\* answered with a newest_id, and becomes that newest_id.
C27_CursorStep ==
    timeline'.store # timeline.store =>
        /\ timeline.pc = "save" /\ timeline'.at = "ok"
        /\ timeline.request # <<>> /\ timeline.newest_id # 0
        /\ Cursor(timeline'.store) = timeline.newest_id

\* A failed call left the cursor as it found it, a rate-limited call made
\* no request, and a request made while a cursor was stored carried that
\* cursor as since_id and 100 as max_results.
C27_CallState ==
    /\ TimelineFailed => timeline.store = timeline.before
    /\ (timeline.pc = "done" /\ timeline.at = "rate_limit") => timeline.request = <<>>
    /\ (timeline.request # <<>> /\ Cursor(timeline.before) # 0) =>
          timeline.request[1] = [since_id |-> Cursor(timeline.before),
                                 max_results |-> 100]

C29_ArunAsRun ==
    (tokens.pc = "done" /\ tokens.entry = "_arun") =>
        /\ tokens.params = <<Params(tokens.kwargs)>>
        /\ tokens.output = <<TokensOutput(tokens.response[1])>>

====
